---- MODULE Spec2Model ----
(***************************************************************************)
(* Model of app.py: the spreadsheet -> DOCX "minuta" filler.               *)
(*                                                                         *)
(* Text is modelled as a sequence of characters.  A character is a string; *)
(* ASCII characters stand for themselves, non-ASCII characters carry a     *)
(* name: "e_acute" is U+00E9, "acute" is the combining mark U+0301,        *)
(* "ord_o" is U+00BA (masculine ordinal indicator).                        *)
(***************************************************************************)
EXTENDS Integers, Sequences, FiniteSets, TLC

VARIABLES
    pc,             \* position of the run
    \* a function called on its own
    input,          \* the arguments
    output,         \* the result
    again,          \* the result of applying it to its own result
    \* one run of the Streamlit script
    docx_file,      \* the uploaded template: <<>> or <<document>>
    xlsx_file,      \* the uploaded spreadsheet: <<>> or <<[headers, rows]>>
    sheet,          \* SheetData returned by load_sheet
    config,         \* the widgets of the "Configuracoes" expander
    records_sorted,
    context,
    rendered,
    download,       \* data of the download button: <<>> or <<document>>
    error,          \* what st.error reported, "" when nothing
    calls           \* the functions of the module called so far, in order

fnVars == <<input, output, again>>
appVars == <<docx_file, xlsx_file, sheet, config, records_sorted, context, rendered,
             download, error, calls>>

vars == <<pc, input, output, again, docx_file, xlsx_file, sheet, config, records_sorted,
          context, rendered, download, error, calls>>

\* the script's variables while a function is exercised on its own
AppIdle ==
    /\ docx_file = <<>> /\ xlsx_file = <<>> /\ sheet = <<>> /\ config = <<>>
    /\ records_sorted = <<>> /\ context = <<>> /\ rendered = <<>>
    /\ download = <<>> /\ error = "" /\ calls = <<>>

FnIdle == input = <<>> /\ output = <<>> /\ again = <<>>

\* a regular-expression search yields NoMatch (Python's None) or <<groups>>
NoMatch == <<>>

----------------------------------------------------------------------------
(* Bounds                                                                  *)

MaxKeyLen == 4
MaxTextLen == 7
MaxRecords == 3
MaxPieces == 4
MaxParagraphs == 3
MaxBlockRecords == 2

----------------------------------------------------------------------------
(* Characters and generic string helpers                                   *)

LowerCase == <<"a","b","c","d","e","f","g","h","i","j","k","l","m",
               "n","o","p","q","r","s","t","u","v","w","x","y","z">>
UpperCase == <<"A","B","C","D","E","F","G","H","I","J","K","L","M",
               "N","O","P","Q","R","S","T","U","V","W","X","Y","Z">>
Digits == <<"0","1","2","3","4","5","6","7","8","9">>

Range(f) == {f[i] : i \in DOMAIN f}

IsDigit(c) == c \in Range(Digits)
IsAlnum(c) == c \in Range(LowerCase) \cup Range(UpperCase) \cup Range(Digits)
Whitespace == {" ", "\t", "\n"}
IsSpace(c) == c \in Whitespace

Min(S) == CHOOSE a \in S : \A b \in S : a <= b
Max(S) == CHOOSE a \in S : \A b \in S : a >= b

IndexOf(seq, c) == CHOOSE i \in DOMAIN seq : seq[i] = c

\* all sequences over S of length at most n
SeqsUpTo(S, n) == UNION {[1..k -> S] : k \in 0..n}

RECURSIVE Concat(_)
Concat(ss) == IF ss = <<>> THEN <<>> ELSE Head(ss) \o Concat(Tail(ss))

\* str.lstrip(chars) / str.rstrip(chars)
RECURSIVE LStrip(_, _)
LStrip(s, chars) ==
    IF s # <<>> /\ Head(s) \in chars THEN LStrip(Tail(s), chars) ELSE s

RECURSIVE RStrip(_, _)
RStrip(s, chars) ==
    IF s # <<>> /\ s[Len(s)] \in chars
    THEN RStrip(SubSeq(s, 1, Len(s) - 1), chars) ELSE s

\* str.strip(): leading and trailing whitespace removed
Strip(s) == RStrip(LStrip(s, Whitespace), Whitespace)

\* needle in hay (Python's substring test; the empty string is in every string)
Contains(hay, needle) ==
    \E i \in 1..(Len(hay) - Len(needle) + 1) :
        SubSeq(hay, i, i + Len(needle) - 1) = needle

----------------------------------------------------------------------------
(* normalize_key                                                           *)

\* unicodedata.normalize("NFKD", .) on one character
Decompose(c) ==
    CASE c = "e_acute" -> <<"e", "acute">>
      [] c = "u_acute" -> <<"u", "acute">>
      [] c = "i_acute" -> <<"i", "acute">>
      [] c = "ord_o"   -> <<"o">>
      [] OTHER         -> <<c>>

NFKD(s) == Concat([i \in DOMAIN s |-> Decompose(s[i])])

\* unicodedata.combining(ch) # 0
Combining(c) == c \in {"acute"}

DropCombining(s) == SelectSeq(s, LAMBDA c : ~Combining(c))

RECURSIVE SkipNonAlnum(_)
SkipNonAlnum(s) ==
    IF s # <<>> /\ ~IsAlnum(Head(s)) THEN SkipNonAlnum(Tail(s)) ELSE s

\* re.sub(r"[^A-Za-z0-9]+", "_", s): every maximal run becomes one underscore
RECURSIVE SubNonAlnum(_)
SubNonAlnum(s) ==
    IF s = <<>> THEN <<>>
    ELSE IF IsAlnum(Head(s)) THEN <<Head(s)>> \o SubNonAlnum(Tail(s))
    ELSE <<"_">> \o SubNonAlnum(SkipNonAlnum(s))

\* str.upper() on one character
UpperChar(c) ==
    IF c \in Range(LowerCase) THEN UpperCase[IndexOf(LowerCase, c)]
    ELSE IF c = "e_acute" THEN "E_acute"
    ELSE c

Upper(s) == [i \in DOMAIN s |-> UpperChar(s[i])]

\* faulty variant: the underscores at the ends are kept
normalize_key_keep_underscores(s) ==
    Upper(SubNonAlnum(DropCombining(NFKD(Strip(s)))))

normalize_key(s) ==
    LET s1 == Strip(s)
        s2 == NFKD(s1)
        s3 == DropCombining(s2)
        s4 == RStrip(LStrip(SubNonAlnum(s3), {"_"}), {"_"})
    IN  Upper(s4)

\* safe_str on a cell already decoded as text (None and NaN cells arrive as "")
safe_str(v) == Strip(v)

----------------------------------------------------------------------------
(* parse_order_value                                                       *)

RECURSIVE ToInt(_)
ToInt(ds) ==
    IF ds = <<>> THEN 0
    ELSE 10 * ToInt(SubSeq(ds, 1, Len(ds) - 1)) + (IndexOf(Digits, ds[Len(ds)]) - 1)

AllIn(t, i, j, P(_)) == \A k \in i..j : P(t[k])

\* _NUM_YEAR = (\d+)\s*/\s*(\d{4}), piece by piece:
\* (\d+) from i ends at any j with t[i..j] all digits
DigitsFrom(t, i) == {j \in i..Len(t) : AllIn(t, i, j, IsDigit)}
\* \s*/ after j puts the slash at k
SlashAfter(t, j) == {k \in (j + 1)..Len(t) : AllIn(t, j + 1, k - 1, IsSpace) /\ t[k] = "/"}
\* \s*(\d{4}) after k puts group 2 at t[m..m+3]
YearAfter(t, k) ==
    {m \in (k + 1)..(Len(t) - 3) : AllIn(t, k + 1, m - 1, IsSpace) /\ AllIn(t, m, m + 3, IsDigit)}

\* every way _NUM_YEAR matches in t: <<start, end of group 1, slash, start of group 2>>
NumYearMatches(t) ==
    UNION {UNION {UNION {{<<i, j, k, m>> : m \in YearAfter(t, k)} :
        k \in SlashAfter(t, j)} : j \in DigitsFrom(t, i)} : i \in DOMAIN t}

Sentinel == 1000000000

\* _NUM_YEAR.search(text): leftmost start, then the greedy (longest) \d+
SearchNumYear(t) ==
    LET ms == NumYearMatches(t)
    IN  IF ms = {} THEN NoMatch
        ELSE LET i == CHOOSE a \in {q[1] : q \in ms} : \A b \in {q[1] : q \in ms} : a <= b
                 at == {q \in ms : q[1] = i}
                 j == CHOOSE a \in {q[2] : q \in at} : \A b \in {q[2] : q \in at} : a >= b
                 q == CHOOSE q \in at : q[2] = j
             IN  <<[g1 |-> SubSeq(t, i, j), g2 |-> SubSeq(t, q[4], q[4] + 3)]>>

\* _FIRST_INT = (\d+) .search(text): the leftmost digit run, as long as it goes
SearchFirstInt(t) ==
    IF \A p \in DOMAIN t : ~IsDigit(t[p]) THEN NoMatch
    ELSE LET i == CHOOSE a \in DOMAIN t :
                      IsDigit(t[a]) /\ \A b \in 1..(a - 1) : ~IsDigit(t[b])
             j == CHOOSE a \in i..Len(t) :
                      AllIn(t, i, a, IsDigit) /\ (a = Len(t) \/ ~IsDigit(t[a + 1]))
         IN  <<[g1 |-> SubSeq(t, i, j)]>>

\* faulty variant: the N/AAAA rule is never tried
parse_order_value_first_int_only(text) ==
    LET t  == safe_str(text)
        m2 == SearchFirstInt(t)
    IN  IF m2 # NoMatch THEN <<0, ToInt(m2[1].g1)>> ELSE <<Sentinel, Sentinel>>

parse_order_value(text) ==
    LET t  == safe_str(text)
        m  == SearchNumYear(t)
        m2 == SearchFirstInt(t)
    IN  IF m # NoMatch THEN <<ToInt(m[1].g2), ToInt(m[1].g1)>>
        ELSE IF m2 # NoMatch THEN <<0, ToInt(m2[1].g1)>>
        ELSE <<Sentinel, Sentinel>>

---------------------------------------------------------------------------------------------------------------------------------------------------
(* sort_records                                                            *)

\* dict.get(key, "")
Get(r, key) == IF key \in DOMAIN r THEN r[key] ELSE <<>>

\* Python's < on (int, int) tuples
TupleLess(a, b) == a[1] < b[1] \/ (a[1] = b[1] /\ a[2] < b[2])

\* faulty variant: a pair goes in front of the pairs with an equal key too
RECURSIVE InsertByKeyUnstable(_, _)
InsertByKeyUnstable(done, e) ==
    IF done = <<>> THEN <<e>>
    ELSE IF ~TupleLess(Head(done).key, e.key) THEN <<e>> \o done
    ELSE <<Head(done)>> \o InsertByKeyUnstable(Tail(done), e)

\* sorted(..., key=...) computes each key once and sorts the (key, item)
\* pairs by key.  It is stable: a pair goes in front of the first pair whose
\* key is strictly greater than its own, behind every pair it does not precede.
RECURSIVE InsertByKey(_, _)
InsertByKey(done, e) ==
    IF done = <<>> THEN <<e>>
    ELSE IF TupleLess(e.key, Head(done).key) THEN <<e>> \o done
    ELSE <<Head(done)>> \o InsertByKey(Tail(done), e)

RECURSIVE SortPairs(_)
SortPairs(es) ==
    IF es = <<>> THEN <<>>
    ELSE InsertByKey(SortPairs(SubSeq(es, 1, Len(es) - 1)), es[Len(es)])

sort_records(records, order_col) ==
    LET col   == normalize_key(order_col)
        keyed == [i \in DOMAIN records |->
                    [key |-> parse_order_value(Get(records[i], col)),
                     item |-> records[i]]]
        done  == SortPairs(keyed)
    IN  [i \in DOMAIN done |-> done[i].item]

----------------------------------------------------------------------------
(* render_template_docx                                                    *)
(*                                                                         *)
(* A document is its sequence of body paragraphs, each paragraph its text. *)
(* DocxTemplate.render runs the text through Jinja2 with docxtpl's default *)
(* environment: "{{" opens a print statement that must hold an expression  *)
(* and be closed by "}}"; a name the context lacks is Undefined and prints *)
(* as the empty string; a value is printed as it is; the output is not     *)
(* scanned again.  The expressions modelled are bare names.                *)

IsNameStart(c) == c \in Range(LowerCase) \cup Range(UpperCase) \cup {"_"}
IsNameChar(c) == IsNameStart(c) \/ IsDigit(c)

RECURSIVE TakeName(_)
TakeName(t) ==
    IF t # <<>> /\ IsNameChar(Head(t)) THEN <<Head(t)>> \o TakeName(Tail(t)) ELSE <<>>

Drop(t, n) == SubSeq(t, n + 1, Len(t))

StartsWith(t, prefix) == Len(t) >= Len(prefix) /\ SubSeq(t, 1, Len(prefix)) = prefix

OpenBraces == <<"{", "{">>
CloseBraces == <<"}", "}">>

\* position of the leftmost "{{" in t, 0 when there is none
FirstOpen(t) ==
    IF Contains(t, OpenBraces)
    THEN CHOOSE i \in 1..Len(t) :
            /\ StartsWith(Drop(t, i - 1), OpenBraces)
            /\ \A j \in 1..(i - 1) : ~StartsWith(Drop(t, j - 1), OpenBraces)
    ELSE 0

\* what an undefined name prints as
Undefined == <<>>

\* faulty variant: an undefined name prints as the token that named it
UndefinedKeepsToken(name) == OpenBraces \o name \o CloseBraces

PrintUndefined(name) == Undefined

\* the text of one paragraph rendered: [ok |-> FALSE] is TemplateSyntaxError
RECURSIVE RenderText(_, _)
RenderText(t, ctx) ==
    LET i == FirstOpen(t)
    IN  IF i = 0 THEN [ok |-> TRUE, text |-> t]
        ELSE LET expr  == LStrip(Drop(t, i + 1), Whitespace)
                 name  == IF expr # <<>> /\ IsNameStart(Head(expr)) THEN TakeName(expr) ELSE <<>>
                 after == LStrip(Drop(expr, Len(name)), Whitespace)
             IN  IF name = <<>> \/ ~StartsWith(after, CloseBraces)
                 THEN [ok |-> FALSE, text |-> <<>>]
                 ELSE LET value == IF name \in DOMAIN ctx THEN ctx[name]
                                   ELSE PrintUndefined(name)
                          rest  == RenderText(Drop(after, 2), ctx)
                      IN  IF rest.ok
                          THEN [ok |-> TRUE, text |-> SubSeq(t, 1, i - 1) \o value \o rest.text]
                          ELSE rest

render_template_docx(template, ctx) ==
    LET ps == [i \in DOMAIN template |-> RenderText(template[i], ctx)]
    IN  IF \A i \in DOMAIN ps : ps[i].ok
        THEN [ok |-> TRUE, doc |-> [i \in DOMAIN ps |-> ps[i].text]]
        ELSE [ok |-> FALSE, doc |-> <<>>]

----------------------------------------------------------------------------
(* build_portaria_lines and insert_block_at_marker                         *)

RECURSIVE Join(_, _)
Join(parts, sep) ==
    IF parts = <<>> THEN <<>>
    ELSE IF Len(parts) = 1 THEN parts[1]
    ELSE parts[1] \o sep \o Join(Tail(parts), sep)

LineSep == <<" ", "-", " ">>

\* the line of one record: its non-empty values in the chosen columns
LineOf(r, cols, label_cols) ==
    LET has   == SelectSeq(cols, LAMBDA c : safe_str(Get(r, c)) # <<>>)
        parts == [i \in DOMAIN has |->
                    IF label_cols THEN has[i] \o <<":", " ">> \o safe_str(Get(r, has[i]))
                    ELSE safe_str(Get(r, has[i]))]
    IN  Join(parts, LineSep)

build_portaria_lines(records, include_cols, label_cols) ==
    LET cols == [i \in DOMAIN include_cols |-> normalize_key(include_cols[i])]
    IN  [i \in DOMAIN records |-> LineOf(records[i], cols, label_cols)]

\* index of the first body paragraph whose text contains the marker, 0 if none
FirstWithMarker(doc, marker) ==
    IF \E i \in DOMAIN doc : Contains(doc[i], marker)
    THEN CHOOSE i \in DOMAIN doc :
            /\ Contains(doc[i], marker)
            /\ \A j \in 1..(i - 1) : ~Contains(doc[j], marker)
    ELSE 0

\* the lines that become paragraphs: `if not line.strip(): continue`
NonBlank(lines) == SelectSeq(lines, LAMBDA l : Strip(l) # <<>>)

\* faulty variant: the marker paragraph keeps its text
insert_block_keeping_marker(doc, marker, lines) ==
    LET i == FirstWithMarker(doc, marker)
    IN  IF i = 0 THEN [ok |-> FALSE, doc |-> <<>>]
        ELSE [ok |-> TRUE,
              doc |-> SubSeq(doc, 1, i - 1) \o NonBlank(lines) \o SubSeq(doc, i, Len(doc))]

\* faulty variant: a missing marker is passed over in silence
insert_block_ignoring_missing_marker(doc, marker, lines) ==
    LET i == FirstWithMarker(doc, marker)
    IN  IF i = 0 THEN [ok |-> TRUE, doc |-> doc]
        ELSE [ok |-> TRUE,
              doc |-> SubSeq(doc, 1, i - 1) \o NonBlank(lines) \o <<<<>>>>
                          \o SubSeq(doc, i + 1, Len(doc))]

\* [ok |-> FALSE] is the ValueError "Marcador ... nao encontrado"
insert_block_at_marker(doc, marker, lines) ==
    LET i == FirstWithMarker(doc, marker)
    IN  IF i = 0 THEN [ok |-> FALSE, doc |-> <<>>]
        ELSE [ok |-> TRUE,
              doc |-> SubSeq(doc, 1, i - 1) \o NonBlank(lines) \o <<<<>>>>
                          \o SubSeq(doc, i + 1, Len(doc))]

----------------------------------------------------------------------------
(* load_sheet and the context of the generate handler                      *)
(*                                                                         *)
(* pd.read_excel(..., dtype=str).fillna("") hands over the header row and  *)
(* the data rows as text: [headers |-> <<text>>, rows |-> <<<<text>>>>].   *)

\* df.empty: no data row, or no column
DfEmpty(xlsx) == xlsx.rows = <<>> \/ xlsx.headers = <<>>

\* the cell of row under the (last) column called col in cols
CellUnder(row, cols, col) ==
    row[Max({i \in DOMAIN cols : cols[i] = col})]

\* df_norm.to_dict(orient="records") after every cell went through safe_str
RecordsOf(xlsx, cols) ==
    [n \in DOMAIN xlsx.rows |->
        [col \in Range(cols) |-> safe_str(CellUnder(xlsx.rows[n], cols, col))]]

NoSheet == [ok |-> FALSE, records |-> <<>>, globals_first_row |-> <<>>, cols_norm |-> <<>>]

SheetData(cols, records) ==
    [ok |-> TRUE,
     records |-> records,
     globals_first_row |-> IF records # <<>> THEN records[1] ELSE <<>>,
     cols_norm |-> cols]

\* faulty variant: a sheet without data rows is loaded like any other
load_sheet_without_empty_check(xlsx) ==
    LET cols == [i \in DOMAIN xlsx.headers |-> normalize_key(xlsx.headers[i])]
    IN  SheetData(cols, RecordsOf(xlsx, cols))

\* faulty variant: the columns keep the headers of the spreadsheet
load_sheet_raw_headers(xlsx) ==
    IF DfEmpty(xlsx) THEN NoSheet
    ELSE SheetData(xlsx.headers, RecordsOf(xlsx, xlsx.headers))

\* [ok |-> FALSE] is the ValueError "A planilha esta vazia"
load_sheet(xlsx) ==
    IF DfEmpty(xlsx) THEN NoSheet
    ELSE LET cols == [i \in DOMAIN xlsx.headers |-> normalize_key(xlsx.headers[i])]
         IN  SheetData(cols, RecordsOf(xlsx, cols))

\* dict.update: b's entries over a's
Update(a, b) == [k \in DOMAIN a \cup DOMAIN b |-> IF k \in DOMAIN b THEN b[k] ELSE a[k]]

\* `extras = {k: v for k, v in extras.items() if safe_str(v)}`
NonBlankExtras(typed) == [k \in {k \in DOMAIN typed : safe_str(typed[k]) # <<>>} |-> typed[k]]

K_registros == <<"r", "e", "g", "i", "s", "t", "r", "o", "s">>

\* faulty variant: the first row is laid over the extra globals
build_context_first_row_wins(globals_first_row, extras, sorted) ==
    Update(Update(extras, globals_first_row), (K_registros :> sorted))

\* context.update(first row); context.update(extras); context["registros"] = ...
build_context(globals_first_row, extras, sorted) ==
    Update(Update(Update(<<>>, globals_first_row), extras), (K_registros :> sorted))

\* faulty variant: the marker block is built whatever the checkbox says
marker_block_always(cfg) == TRUE

\* `if use_marker_block:`
marker_block_enabled(cfg) == cfg.use_marker_block

----------------------------------------------------------------------------
(* Specification SpecNorm: normalize_key applied to every short header     *)

NormAlphabet == {"a", "Z", "1", "_", " ", "-", "e_acute", "ord_o"}

InitNorm ==
    /\ pc = "call"
    /\ AppIdle
    /\ input \in SeqsUpTo(NormAlphabet, MaxKeyLen)
    /\ output = <<>>
    /\ again = <<>>

Normalize ==
    /\ pc = "call"
    /\ output' = normalize_key(input)
    /\ pc' = "returned"
    /\ UNCHANGED <<input, again, appVars>>

Renormalize ==
    /\ pc = "returned"
    /\ again' = normalize_key(output)
    /\ pc' = "reapplied"
    /\ UNCHANGED <<input, output, appVars>>

NextNorm == Normalize \/ Renormalize

SpecNorm == InitNorm /\ [][NextNorm]_vars

\* C9: normalize_key is idempotent and its result consists of uppercase ASCII
\* letters, digits and underscores only, with no underscore at either end.
C9_NormalizeIdempotent ==
    /\ pc \in {"returned", "reapplied"} =>
          /\ \A i \in DOMAIN output :
                output[i] \in Range(UpperCase) \cup Range(Digits) \cup {"_"}
          /\ output # <<>> => output[1] # "_" /\ output[Len(output)] # "_"
    /\ pc = "reapplied" => again = output

C9_Witness ==
    /\ pc = "reapplied"
    /\ output # input
    /\ Contains(output, <<"_">>)
    /\ Contains(input, <<"e_acute">>)

----------------------------------------------------------------------------
(* Specification SpecParse: parse_order_value applied to every short text  *)

ParseAlphabet == {"0", "7", "/", " ", "x"}

InitParse ==
    /\ pc = "call"
    /\ AppIdle
    /\ input \in SeqsUpTo(ParseAlphabet, MaxTextLen)
    /\ output = <<>>
    /\ again = <<>>

Parse ==
    /\ pc = "call"
    /\ output' = parse_order_value(input)
    /\ pc' = "returned"
    /\ UNCHANGED <<input, again, appVars>>

NextParse == Parse

SpecParse == InitParse /\ [][NextParse]_vars

\* The three rules as the documentation words them, read off the text around
\* each slash.  spaced = TRUE lets whitespace stand between the slash and the
\* four digits, spaced = FALSE does not.

\* last position before k that is not whitespace (0 when there is none)
LastBefore(t, k) == Max({0} \cup {j \in 1..(k - 1) : ~IsSpace(t[j])})
\* first position after k that is not whitespace (Len(t) + 1 when there is none)
FirstAfter(t, k) == Min({Len(t) + 1} \cup {m \in (k + 1)..Len(t) : ~IsSpace(t[m])})

YearStart(t, k, spaced) == IF spaced THEN FirstAfter(t, k) ELSE k + 1

NumberSlashYear(t, k, spaced) ==
    /\ t[k] = "/"
    /\ LastBefore(t, k) >= 1 /\ IsDigit(t[LastBefore(t, k)])
    /\ YearStart(t, k, spaced) + 3 <= Len(t)
    /\ \A d \in 0..3 : IsDigit(t[YearStart(t, k, spaced) + d])

\* the digit run that ends at position j
RunEndingAt(t, j) ==
    SubSeq(t, Min({i \in 1..j : \A p \in i..j : IsDigit(t[p])}), j)

\* the first digit run of t, read left to right
RECURSIVE TakeDigits(_)
TakeDigits(t) ==
    IF t # <<>> /\ IsDigit(Head(t)) THEN <<Head(t)>> \o TakeDigits(Tail(t)) ELSE <<>>

RECURSIVE FirstDigitRun(_)
FirstDigitRun(t) ==
    IF t = <<>> THEN <<>>
    ELSE IF IsDigit(Head(t)) THEN TakeDigits(t) ELSE FirstDigitRun(Tail(t))

DocumentedKey(text, spaced) ==
    LET t     == Strip(text)
        slash == {k \in DOMAIN t : NumberSlashYear(t, k, spaced)}
    IN  IF slash # {}
        THEN LET k == Min(slash)
                 y == YearStart(t, k, spaced)
             IN  <<ToInt(SubSeq(t, y, y + 3)), ToInt(RunEndingAt(t, LastBefore(t, k)))>>
        ELSE IF FirstDigitRun(t) # <<>> THEN <<0, ToInt(FirstDigitRun(t))>>
        ELSE <<Sentinel, Sentinel>>

\* C8 (as claimed): (YYYY, D) for digits, optional whitespace, '/', four
\* digits; (0, first digit run) for a text with digits and no such pattern;
\* the sentinel pair for a text with no digit.
C8_AsClaimed ==
    pc = "returned" => output = DocumentedKey(input, FALSE)

\* C8 (amended): the same three rules, with optional whitespace allowed on
\* both sides of the slash and the year being the four digits that follow it.
C8_ParseOrderValue ==
    pc = "returned" => output = DocumentedKey(input, TRUE)

C8_Witness ==
    /\ pc = "returned"
    /\ input = <<"7", "/", " ", "7", "7", "7", "7">>
    /\ output = <<7777, 7>>

----------------------------------------------------------------------------
(* Specification SpecSort: sort_records on every short list of records     *)

K_NUMERO == <<"N", "U", "M", "E", "R", "O">>
K_NOME == <<"N", "O", "M", "E">>
K_X == <<"X">>
H_Numero == <<"N", "u_acute", "m", "e", "r", "o">>
H_Nome == <<"N", "o", "m", "e">>

V_45_2024 == <<"4", "5", "/", "2", "0", "2", "4">>
V_3_2024 == <<"3", "/", "2", "0", "2", "4">>
V_3_2023 == <<"3", " ", "/", " ", "2", "0", "2", "3">>
V_7 == <<"n", " ", "7">>
V_Ana == <<"A", "n", "a">>
V_Beto == <<"B", "e", "t", "o">>

SortValues == {V_45_2024, V_3_2024, V_3_2023, V_7, <<>>}
SortNames == {V_Ana, V_Beto}

Row(numero, nome) == (K_NUMERO :> numero) @@ (K_NOME :> nome)

SortRows == {Row(v, n) : v \in SortValues, n \in SortNames}

InitSort ==
    /\ pc = "call"
    /\ AppIdle
    /\ input \in [records : SeqsUpTo(SortRows, MaxRecords),
                   order_col : {H_Numero, K_NOME, K_X}]
    /\ output = <<>>
    /\ again = <<>>

Sort ==
    /\ pc = "call"
    /\ output' = sort_records(input.records, input.order_col)
    /\ pc' = "returned"
    /\ UNCHANGED <<input, again, appVars>>

SortAgain ==
    /\ pc = "returned"
    /\ again' = sort_records(output, input.order_col)
    /\ pc' = "reapplied"
    /\ UNCHANGED <<input, output, appVars>>

NextSort == Sort \/ SortAgain

SpecSort == InitSort /\ [][NextSort]_vars

\* the OrderKey of a record: parse_order_value of its value in the order column
OrderKey(r, order_col) == parse_order_value(Get(r, normalize_key(order_col)))

KeyLeq(a, b) == a[1] < b[1] \/ (a[1] = b[1] /\ a[2] <= b[2])

Bijections(n) == {p \in [1..n -> 1..n] : \A i, j \in 1..n : p[i] = p[j] => i = j}

\* C1: sort_records returns a permutation of its input in non-decreasing
\* OrderKey order (epoch first, then sequence), records with equal keys keep
\* their input order, and sorting the result again returns the same order.
C1_SortStableTotal ==
    /\ pc \in {"returned", "reapplied"} =>
          \E p \in Bijections(Len(input.records)) :
              /\ Len(output) = Len(input.records)
              /\ \A i \in DOMAIN output : output[i] = input.records[p[i]]
              /\ \A i, j \in DOMAIN output : i < j =>
                    /\ KeyLeq(OrderKey(output[i], input.order_col),
                              OrderKey(output[j], input.order_col))
                    /\ OrderKey(output[i], input.order_col)
                           = OrderKey(output[j], input.order_col) => p[i] < p[j]
    /\ pc = "reapplied" => again = output

C1_Witness ==
    /\ pc = "reapplied"
    /\ input.order_col = H_Numero
    /\ input.records = <<Row(V_45_2024, V_Ana), Row(V_3_2024, V_Beto), Row(V_3_2024, V_Ana)>>
    /\ output = <<Row(V_3_2024, V_Beto), Row(V_3_2024, V_Ana), Row(V_45_2024, V_Ana)>>

----------------------------------------------------------------------------
(* Specification SpecRender: render_template_docx on every short template  *)

K_K == <<"K">>
K_J == <<"J">>
Token(key) == OpenBraces \o key \o CloseBraces

\* a template paragraph is put together from literal characters and tokens
RenderPieces == {<<"a">>, <<"{">>, <<"}">>, Token(K_K), Token(K_J)}

RenderContexts ==
    {kv \in [{K_K, K_J} -> {<<>>, <<"A", "n", "a">>, Token(K_J), <<"{">>}] : kv[K_J] \in {<<>>, <<"b">>}}

\* the context with the given keys left out
Without(ctx, keys) == [k \in DOMAIN ctx \ keys |-> ctx[k]]

InitRender ==
    /\ pc = "call"
    /\ AppIdle
    /\ input \in [pieces : SeqsUpTo(RenderPieces, MaxPieces),
                   context : {Without(kv, absent) : kv \in RenderContexts,
                                                    absent \in SUBSET {K_K, K_J}}]
    /\ output = <<>>
    /\ again = <<>>

Render ==
    /\ pc = "call"
    /\ output' = render_template_docx(<<Concat(input.pieces)>>, input.context)
    /\ pc' = IF output'.ok THEN "returned" ELSE "raised"
    /\ UNCHANGED <<input, again, appVars>>

RenderAgain ==
    /\ pc = "returned"
    /\ again' = render_template_docx(output.doc, input.context)
    /\ pc' = "reapplied"
    /\ UNCHANGED <<input, output, appVars>>

NextRender == Render \/ RenderAgain

SpecRender == InitRender /\ [][NextRender]_vars

IsToken(piece) == \E key \in {K_K, K_J} : piece = Token(key)
KeyOf(piece) == CHOOSE key \in {K_K, K_J} : piece = Token(key)

\* the pieces are what the template reads as: no literal opening brace that
\* could join a neighbour into another token
PlainPieces(pieces) == \A i \in DOMAIN pieces : pieces[i] # <<"{">>

\* every token replaced by the context's value, an absent key by `absent`
Substituted(pieces, ctx, keepAbsent) ==
    Concat([i \in DOMAIN pieces |->
        IF ~IsToken(pieces[i]) THEN pieces[i]
        ELSE IF KeyOf(pieces[i]) \in DOMAIN ctx THEN ctx[KeyOf(pieces[i])]
        ELSE IF keepAbsent THEN pieces[i] ELSE <<>>])

NoBraceValues(ctx) == \A k \in DOMAIN ctx : ~Contains(ctx[k], <<"{">>)

----------------------------------------------------------------------------
(* Specification SpecMarker: a block built and inserted at a marker        *)

M_Marker == <<"#", "M">>

MarkerParagraphs == {<<"x">>, M_Marker, <<"x", "#", "M", "x">>}
MarkerTexts == {M_Marker, <<>>}
MarkerRecords == {(K_NOME :> v) : v \in {<<"7">>, <<" ">>, <<"x">> \o M_Marker}}
                    \cup {Row(<<"7">>, <<"x">>)}

InitMarker ==
    /\ pc = "call"
    /\ AppIdle
    /\ input \in [doc : SeqsUpTo(MarkerParagraphs, MaxParagraphs),
                   marker : MarkerTexts,
                   records : SeqsUpTo(MarkerRecords, MaxBlockRecords),
                   cols : {<<H_Nome>>, <<H_Numero, H_Nome>>},
                   label_cols : BOOLEAN]
    /\ output = <<>>
    /\ again = <<>>

InsertBlock ==
    /\ pc = "call"
    /\ LET lines == build_portaria_lines(input.records, input.cols, input.label_cols)
       IN  output' = insert_block_at_marker(input.doc, input.marker, lines)
    /\ pc' = IF output'.ok THEN "returned" ELSE "raised"
    /\ UNCHANGED <<input, again, appVars>>

NextMarker == InsertBlock

SpecMarker == InitMarker /\ [][NextMarker]_vars

\* a record qualifies when it has a non-empty value in one of the columns
Qualifies(r, cols) ==
    \E i \in DOMAIN cols : Strip(Get(r, normalize_key(cols[i]))) # <<>>

Qualifying(records, cols) == SelectSeq(records, LAMBDA r : Qualifies(r, cols))

WithMarker(doc, marker) == {i \in DOMAIN doc : Contains(doc[i], marker)}

\* the marker is in exactly one paragraph and two records qualify
C4_Case ==
    /\ Cardinality(WithMarker(input.doc, input.marker)) = 1
    /\ Len(Qualifying(input.records, input.cols)) = 2

\* two line-groups, one per qualifying record and in their order, stand
\* right before the emptied marker paragraph; the rest is as it was
C4_TwoLinesBeforeMarker ==
    LET i  == CHOOSE i \in WithMarker(input.doc, input.marker) : TRUE
        qs == Qualifying(input.records, input.cols)
    IN  /\ pc = "returned"
        /\ Len(output.doc) = Len(input.doc) + 2
        /\ SubSeq(output.doc, 1, i - 1) = SubSeq(input.doc, 1, i - 1)
        /\ \A n \in 1..2 :
              output.doc[i - 1 + n] =
                  build_portaria_lines(<<qs[n]>>, input.cols, input.label_cols)[1]
        /\ output.doc[i + 2] = <<>>
        /\ SubSeq(output.doc, i + 3, Len(output.doc)) = SubSeq(input.doc, i + 1, Len(input.doc))

\* C4 (as claimed): with the marker in exactly one body paragraph and a
\* block of two qualifying records, two line-groups stand right before the
\* marker paragraph's position in input order, and afterwards no paragraph
\* of the output contains the marker string.
C4_AsClaimed ==
    pc # "call" /\ C4_Case /\ input.marker # <<>> =>
        /\ C4_TwoLinesBeforeMarker
        /\ \A j \in DOMAIN output.doc : ~Contains(output.doc[j], input.marker)

\* C4 (amended): ... and afterwards the marker paragraph is empty and the
\* marker string is in no paragraph of the output other than a generated
\* line that itself contains it, unless the marker is the empty string.
C4_MarkerInsertion ==
    pc # "call" /\ C4_Case =>
        /\ C4_TwoLinesBeforeMarker
        /\ LET i == CHOOSE i \in WithMarker(input.doc, input.marker) : TRUE
           IN  \A j \in DOMAIN output.doc :
                   Contains(output.doc[j], input.marker) =>
                       \/ input.marker = <<>>
                       \/ j \in {i, i + 1}

C4_Witness ==
    /\ pc = "returned"
    /\ input.marker = M_Marker
    /\ input.doc = <<<<"x">>, M_Marker, <<"x">>>>
    /\ input.records = <<Row(<<"7">>, <<"x">>), (K_NOME :> <<"7">>)>>
    /\ input.cols = <<H_Numero, H_Nome>>
    /\ input.label_cols
    /\ output.doc = <<<<"x">>,
                      K_NUMERO \o <<":", " ", "7">> \o LineSep \o K_NOME \o <<":", " ", "x">>,
                      K_NOME \o <<":", " ", "7">>,
                      <<>>,
                      <<"x">>>>

----------------------------------------------------------------------------
(* Specification Spec: one run of the script, from the uploads to the      *)
(* download button                                                         *)

K_ANO == <<"A", "N", "O">>
K_MES == <<"M", "E", "S">>
K_EXERCICIO == <<"E", "X", "E", "R", "C", "I", "C", "I", "O">>
K_ATESTO == <<"A", "T", "E", "S", "T", "O">>
K_N_ATESTO == <<"N", "_", "A", "T", "E", "S", "T", "O">>
H_Ano == <<"A", "n", "o">>
H_N_Atesto == <<"N", ".", " ", "A", "t", "e", "s", "t", "o">>
V_2023 == <<"2", "0", "2", "3">>
V_2025 == <<"2", "0", "2", "5">>

Sheets ==
    {[headers |-> <<H_Numero, H_Nome>>, rows |-> <<>>],
     [headers |-> <<H_Numero, H_Nome>>, rows |-> <<<<V_45_2024, V_Ana>>, <<V_3_2024, V_Beto>>>>],
     [headers |-> <<H_Numero, H_Nome>>, rows |-> <<<<<<>>, <<" ">>>>>>],
     [headers |-> <<H_Ano, H_Nome>>, rows |-> <<<<V_2023, V_Ana>>>>],
     [headers |-> <<H_N_Atesto, H_Nome>>, rows |-> <<<<V_7, V_Beto>>>>]}

Templates ==
    {<<Token(K_NOME) \o <<" ">> \o Token(K_ANO), M_Marker>>,
     <<<<"x">> \o M_Marker, Token(K_NOME), M_Marker>>,
     <<Token(K_NOME) \o Token(K_X)>>,
     <<<<"x">> \o OpenBraces, M_Marker>>}

ErrEmptySheet == "Erro ao ler planilha: A planilha esta vazia (sem linhas de dados)."
ErrTemplate == "Erro ao gerar minuta: TemplateSyntaxError"
ErrNoColumns == "Erro ao gerar minuta: Selecione ao menos uma coluna para compor o bloco."
ErrMarkerNotFound == "Erro ao gerar minuta: Marcador nao encontrado no corpo do documento."

Init ==
    /\ pc = "AwaitingInputs"
    /\ FnIdle
    /\ docx_file \in {<<>>} \cup {<<t>> : t \in Templates}
    /\ xlsx_file \in {<<>>} \cup {<<x>> : x \in Sheets}
    /\ sheet = <<>> /\ config = <<>> /\ records_sorted = <<>> /\ context = <<>>
    /\ rendered = <<>> /\ download = <<>> /\ error = "" /\ calls = <<>>

\* `if not docx_file or not xlsx_file: st.stop()`
AwaitInputs ==
    /\ pc = "AwaitingInputs"
    /\ pc' = IF docx_file = <<>> \/ xlsx_file = <<>> THEN "Stopped" ELSE "LoadingSheet"
    /\ UNCHANGED <<fnVars, appVars>>

LoadSheet ==
    /\ pc = "LoadingSheet"
    /\ calls' = Append(calls, "load_sheet")
    /\ LET loaded == load_sheet(xlsx_file[1])
       IN  IF loaded.ok
           THEN sheet' = loaded /\ pc' = "SheetLoaded" /\ UNCHANGED error
           ELSE error' = ErrEmptySheet /\ pc' = "Stopped" /\ UNCHANGED sheet
    /\ UNCHANGED <<fnVars, docx_file, xlsx_file, config, records_sorted, context,
                   rendered, download>>

\* the widgets, as the operator leaves them before pressing the button
Configure ==
    /\ pc = "SheetLoaded"
    /\ \E order_col \in Range(sheet.cols_norm),
          ano \in {<<>>, <<" ">>, V_2025},
          mes \in {<<>>, <<"5">>},
          use_marker_block \in BOOLEAN,
          marker_cols \in {<<>>, <<sheet.cols_norm[1]>>, sheet.cols_norm} :
          config' = [order_col |-> order_col,
                     extras |-> (K_ANO :> ano) @@ (K_MES :> mes) @@ (K_EXERCICIO :> <<>>),
                     use_marker_block |-> use_marker_block,
                     marker_text |-> M_Marker,
                     marker_cols |-> IF use_marker_block THEN marker_cols ELSE <<>>,
                     marker_label_cols |-> TRUE]
    /\ pc' = "Configured"
    /\ UNCHANGED <<fnVars, docx_file, xlsx_file, sheet, records_sorted, context,
                   rendered, download, error, calls>>

\* 1) Ordena registros
SortRecords ==
    /\ pc = "Configured"
    /\ records_sorted' = sort_records(sheet.records, config.order_col)
    /\ calls' = Append(calls, "sort_records")
    /\ pc' = "RecordsSorted"
    /\ UNCHANGED <<fnVars, docx_file, xlsx_file, sheet, config, context, rendered,
                   download, error>>

\* 2) Contexto do docxtpl
BuildContext ==
    /\ pc = "RecordsSorted"
    /\ context' = build_context(sheet.globals_first_row, NonBlankExtras(config.extras),
                                records_sorted)
    /\ pc' = "ContextBuilt"
    /\ UNCHANGED <<fnVars, docx_file, xlsx_file, sheet, config, records_sorted, rendered,
                   download, error, calls>>

\* 3) Renderiza template
RenderTemplate ==
    /\ pc = "ContextBuilt"
    /\ calls' = Append(calls, "render_template_docx")
    /\ LET r == render_template_docx(docx_file[1], context)
       IN  IF r.ok
           THEN rendered' = r.doc /\ pc' = "PlaceholdersSubstituted" /\ UNCHANGED error
           ELSE error' = ErrTemplate /\ pc' = "Failed" /\ UNCHANGED rendered
    /\ UNCHANGED <<fnVars, docx_file, xlsx_file, sheet, config, records_sorted, context,
                   download>>

\* 4) Opcional: inserir bloco em marcador
MarkerBlockNoColumns ==
    /\ pc = "PlaceholdersSubstituted"
    /\ marker_block_enabled(config)
    /\ config.marker_cols = <<>>
    /\ error' = ErrNoColumns
    /\ pc' = "Failed"
    /\ UNCHANGED <<fnVars, docx_file, xlsx_file, sheet, config, records_sorted, context,
                   rendered, download, calls>>

MarkerBlock ==
    /\ pc = "PlaceholdersSubstituted"
    /\ marker_block_enabled(config)
    /\ config.marker_cols # <<>>
    /\ calls' = calls \o <<"build_portaria_lines", "insert_block_at_marker">>
    /\ LET lines == build_portaria_lines(records_sorted, config.marker_cols,
                                         config.marker_label_cols)
           r     == insert_block_at_marker(rendered, config.marker_text, lines)
       IN  IF r.ok
           THEN rendered' = r.doc /\ pc' = "MarkerInserted" /\ UNCHANGED error
           ELSE error' = ErrMarkerNotFound /\ pc' = "Failed" /\ UNCHANGED rendered
    /\ UNCHANGED <<fnVars, docx_file, xlsx_file, sheet, config, records_sorted, context,
                   download>>

\* st.success and st.download_button(data=rendered)
OfferDownload ==
    /\ \/ pc = "MarkerInserted"
       \/ pc = "PlaceholdersSubstituted" /\ ~marker_block_enabled(config)
    /\ download' = <<rendered>>
    /\ pc' = "Done"
    /\ UNCHANGED <<fnVars, docx_file, xlsx_file, sheet, config, records_sorted, context,
                   rendered, error, calls>>

Next ==
    \/ AwaitInputs
    \/ LoadSheet
    \/ Configure
    \/ SortRecords
    \/ BuildContext
    \/ RenderTemplate
    \/ MarkerBlockNoColumns
    \/ MarkerBlock
    \/ OfferDownload

Spec == Init /\ [][Next]_vars

Called(f) == \E i \in DOMAIN calls : calls[i] = f

Configured == config # <<>>
ContextIsBuilt ==
    pc \in {"ContextBuilt", "PlaceholdersSubstituted", "MarkerInserted", "Done", "Failed"}

\* the document as the template step leaves it, whatever came after
AsRendered == render_template_docx(docx_file[1], context)

\* C2: a failing step ends the run in the failed state with its own error
\* reported and no document offered; a document is offered only after every
\* enabled step has succeeded.
C2_NoOutputOnFailure ==
    /\ download # <<>> =>
          /\ pc = "Done" /\ error = ""
          /\ Called("load_sheet") /\ Called("sort_records") /\ Called("render_template_docx")
          /\ AsRendered.ok
          /\ config.use_marker_block =>
                /\ config.marker_cols # <<>>
                /\ Called("insert_block_at_marker")
                /\ FirstWithMarker(AsRendered.doc, config.marker_text) # 0
    /\ error # "" <=> pc = "Failed" \/ (pc = "Stopped" /\ Called("load_sheet"))
    /\ pc \in {"Failed", "Stopped"} => download = <<>>
    /\ pc = "Failed" =>
          error = IF ~AsRendered.ok THEN ErrTemplate
                  ELSE IF config.marker_cols = <<>> THEN ErrNoColumns
                  ELSE ErrMarkerNotFound
    /\ ContextIsBuilt /\ pc # "ContextBuilt" /\ ~AsRendered.ok => pc = "Failed"
    /\ pc \in {"MarkerInserted", "Done"} /\ config.use_marker_block =>
          FirstWithMarker(AsRendered.doc, config.marker_text) # 0

C2_Witness ==
    /\ pc = "Failed"
    /\ error = ErrMarkerNotFound
    /\ config.use_marker_block
    /\ \A i \in DOMAIN rendered : ~Contains(rendered[i], config.marker_text)
    /\ download = <<>>

\* C3: a spreadsheet with headers and no data row makes load_sheet raise the
\* empty-sheet error, and the run never reaches render_template_docx or
\* insert_block_at_marker.
C3_EmptySheetStopsEarly ==
    xlsx_file # <<>> /\ xlsx_file[1].rows = <<>> =>
        /\ ~Called("render_template_docx")
        /\ ~Called("insert_block_at_marker")
        /\ rendered = <<>> /\ download = <<>>
        /\ pc \in {"AwaitingInputs", "LoadingSheet", "Stopped"}
        /\ Called("load_sheet") => pc = "Stopped" /\ error = ErrEmptySheet

C3_Witness ==
    /\ xlsx_file # <<>> /\ docx_file # <<>>
    /\ xlsx_file[1].headers # <<>> /\ xlsx_file[1].rows = <<>>
    /\ Called("load_sheet")
    /\ pc = "Stopped"
    /\ error = ErrEmptySheet

\* columns are chosen for the block and no record has a value in any of them
NoQualifyingRecord ==
    /\ config.marker_cols # <<>>
    /\ \A i \in DOMAIN sheet.records : ~Qualifies(sheet.records[i], config.marker_cols)

\* the marker step was skipped: nothing after the template step touched the
\* document and no error of the marker step was reported
MarkerStepSkipped ==
    /\ ~Called("insert_block_at_marker")
    /\ error \notin {ErrMarkerNotFound, ErrNoColumns}
    /\ pc = "PlaceholdersSubstituted" => rendered = AsRendered.doc
    /\ pc = "Done" =>
          /\ download = <<AsRendered.doc>>
          /\ calls = <<"load_sheet", "sort_records", "render_template_docx">>

\* C5 (as claimed): the marker step is skipped whenever the configuration
\* opts out of the marker block or no record qualifies, and the run then goes
\* from PlaceholdersSubstituted directly to Done.
C5_AsClaimed ==
    Configured /\ (~config.use_marker_block \/ NoQualifyingRecord) =>
        /\ MarkerStepSkipped
        /\ pc = "Failed" => ~AsRendered.ok

\* C5 (amended): the marker step is skipped exactly when the configuration
\* opts out of the marker block, and the run then goes from
\* PlaceholdersSubstituted directly to Done; with the marker block enabled the
\* step runs even when no record qualifies: the marker paragraph is emptied
\* with no line put before it, or the run fails.
C5_SkipOnlyOnOptOut ==
    /\ Configured /\ ~config.use_marker_block =>
          /\ MarkerStepSkipped
          /\ pc = "Failed" => ~AsRendered.ok
    /\ Configured /\ config.use_marker_block /\ pc = "Done" =>
          /\ Called("insert_block_at_marker")
          /\ LET i == FirstWithMarker(AsRendered.doc, config.marker_text)
             IN  /\ i # 0
                 /\ download[1][i + Len(download[1]) - Len(AsRendered.doc)] = <<>>
                 /\ NoQualifyingRecord =>
                       /\ Len(download[1]) = Len(AsRendered.doc)
                       /\ download[1] = [AsRendered.doc EXCEPT ![i] = <<>>]

C5_Witness ==
    /\ pc = "Done"
    /\ ~config.use_marker_block
    /\ \E i \in DOMAIN download[1] : Contains(download[1][i], config.marker_text)
    /\ download[1] = AsRendered.doc

\* what the operator typed into the extra global fields, blanks apart
Supplied == {k \in DOMAIN config.extras : Strip(config.extras[k]) # <<>>}

CanonicalVariants ==
    (K_ATESTO :> <<K_N_ATESTO>>) @@ (K_NUMERO :> <<<<"N">>, <<"N", "U", "M">>>>)

SheetIsLoaded == sheet # <<>>

ColumnSet == Range(sheet.cols_norm)

\* the first accepted variant of field f among the sheet's columns, if any
FirstVariant(f) ==
    LET vs == SelectSeq(CanonicalVariants[f], LAMBDA v : v \in
                  {normalize_key(xlsx_file[1].headers[i]) : i \in DOMAIN xlsx_file[1].headers})
    IN  IF vs = <<>> THEN <<>> ELSE <<vs[1]>>

====
